---- MODULE Spec2Model ----
(***************************************************************************)
(* Model of server.py, the chat backend of Bean-Bot: the /chat handler,    *)
(* its three SQLite tables (convos, memory, consent), the rule-based       *)
(* fallback generator and the LLM helper.                                  *)
(*                                                                         *)
(* Text is modelled as a sequence of one-character strings, so that        *)
(* lower(), strip(), startswith(), "in", split() and slicing are computed  *)
(* on characters as Python computes them.                                  *)
(***************************************************************************)
EXTENDS Integers, Sequences, FiniteSets, TLC

\* ------------------------------------------------------------------------
\* Bounds of the model
\* ------------------------------------------------------------------------

\* Number of requests received in one run.
MaxTurns == 3

\* Length of the long facts stored to reach the reply limit of the rules.
LongLen == 120

\* ------------------------------------------------------------------------
\* Program constants
\* ------------------------------------------------------------------------

\* rule_based_reply line 95: mem[:3]
RuleFacts == 3

\* rule_based_reply line 95: [:300]
RuleReplyMax == 300

\* llm_reply line 109: mem[:10]
LlmFacts == 10

\* ------------------------------------------------------------------------
\* String literals of the program
\* ------------------------------------------------------------------------

\* rule_based_reply line 81: f"hey {...}! how's it going?" (the source's typographic apostrophe is written ')
RuleGreetHead ==
    <<"h","e","y"," ">>
RuleGreetTail ==
    <<"!"," ","h","o","w","'","s"," ","i","t"," ","g","o","i","n","g","?">>
RuleThere ==
    <<"t","h","e","r","e">>
\* line 83 (the source's em dash is written -)
RuleHowAreYou ==
    <<"i","'","m"," ","d","o","i","n","g"," ","p","r","e","t","t","y"," ","w","e","l","l","-",
      "a","p","p","r","e","c","i","a","t","e"," ","y","o","u"," ","a","s","k","i","n","g","!">>
\* line 85
RuleWhoAreYou ==
    <<"i","'","m"," ","y","o","u","r"," ","f","r","i","e","n","d","l","y"," ","i","n","-","w",
      "o","r","l","d"," ","b","o","t","."," ","t","r","y"," ","'","h","e","l","p","'"," ","f",
      "o","r"," ","t","r","i","c","k","s",".">>
\* line 87
RuleHelp ==
    <<"i"," ","c","a","n"," ","c","h","a","t",","," ","a","n","d"," ","s","t","o","r","e","/",
      "f","o","r","g","e","t"," ","f","a","c","t","s",":"," ","'","r","e","m","e","m","b","e",
      "r",":"," ","i"," ","l","i","k","e"," ","o","o","l","o","n","g"," ","t","e","a","'"," ",
      "o","r"," ","'","f","o","r","g","e","t",":"," ","i"," ","l","i","k","e"," ","o","o","l",
      "o","n","g"," ","t","e","a","'","."," ","t","o","g","g","l","e"," ","l","e","a","r","n",
      "i","n","g"," ","w","i","t","h"," ","'","c","o","n","s","e","n","t",":"," ","y","e","s",
      "/","n","o","'",".">>
\* line 89 (em dash written -)
RuleRemember ==
    <<"g","o","t"," ","i","t","-","i"," ","s","a","v","e","d"," ","t","h","a","t","."," ","(",
      "s","a","y"," ","'","f","o","r","g","e","t",":"," ",".",".",".","'"," ","t","o"," ","r",
      "e","m","o","v","e"," ","i","t",")">>
\* line 91
RuleForget ==
    <<"o","k",","," ","s","c","r","u","b","b","e","d"," ","f","r","o","m"," ","m","e","m","o",
      "r","y",".">>
\* line 93
RuleBye ==
    <<"c","a","t","c","h"," ","y","o","u"," ","l","a","t","e","r","!">>
\* line 95
RuleNotedHead ==
    <<"n","o","t","e","d","."," ","b","t","w"," ","i"," ","r","e","m","e","m","b","e","r",":",
      " ">>
\* line 96
RuleTellMore ==
    <<"o","k","!"," ","t","e","l","l"," ","m","e"," ","m","o","r","e","?">>
\* llm_reply lines 103-107
SystemBase ==
    <<"Y","o","u"," ","a","r","e"," ","a"," ","f","r","i","e","n","d","l","y"," ","i","n","-",
      "w","o","r","l","d"," ","N","P","C"," ","l","i","v","i","n","g"," ","i","n"," ","S","e",
      "c","o","n","d"," ","L","i","f","e",".","\n","K","e","e","p"," ","r","e","p","l","i","e",
      "s"," ","s","h","o","r","t"," ","(","<","="," ","2"," ","s","e","n","t","e","n","c","e",
      "s",")"," ","a","n","d"," ","a","s","k"," ","o","c","c","a","s","i","o","n","a","l"," ",
      "f","o","l","l","o","w","-","u","p","s",".","\n","R","e","s","p","e","c","t"," ","c","o",
      "n","s","e","n","t",":"," ","o","n","l","y"," ","u","s","e"," ","'","m","e","m","o","r",
      "y","'"," ","i","f"," ","t","h","e"," ","u","s","e","r"," ","o","p","t","e","d"," ","i",
      "n",".","\n">>
\* llm_reply line 109
SystemKnown ==
    <<"K","n","o","w","n"," ","p","r","e","f","e","r","e","n","c","e","s"," ","f","o","r"," ",
      "t","h","i","s"," ","u","s","e","r",":"," ">>
\* chat line 151
ReplyConsentHead ==
    <<"t","h","a","n","k","s","!"," ","l","e","a","r","n","i","n","g"," ","i","s"," ","n","o",
      "w"," ">>
ReplyOn ==
    <<"O","N",".">>
ReplyOff ==
    <<"O","F","F",".">>
\* chat line 156
ReplySaved ==
    <<"s","a","v","e","d",":"," ","'">>
\* chat line 161
ReplyForgot ==
    <<"f","o","r","g","o","t",":"," ","'">>
ReplyQuote ==
    <<"'">>
\* chat line 170
ReplyLlmTag ==
    <<" ","[","l","l","m","]">>
\* chat line 173
ReplyFallbackHead ==
    <<"(","f","a","l","l","b","a","c","k",")"," ","L","L","M"," ","e","r","r","o","r",":"," ">>
\* chat line 148
PrefixConsent ==
    <<"c","o","n","s","e","n","t",":">>
\* chat line 153, rule_based_reply line 88
PrefixRemember ==
    <<"r","e","m","e","m","b","e","r",":">>
\* chat line 158, rule_based_reply line 90
PrefixForget ==
    <<"f","o","r","g","e","t",":">>
\* chat line 149
TokenYes ==
    <<"y","e","s">>
\* chat lines 154, 159
Colon ==
    <<":">>
\* rule_based_reply line 95
SepMem ==
    <<","," ">>
\* llm_reply line 109
SepKnown ==
    <<";"," ">>
\* llm_reply line 109
Newline ==
    <<"\n">>
\* llm_reply line 113
NameSep ==
    <<":"," ">>
\* rule_based_reply line 80
WordHi ==
    <<"h","i">>
WordHello ==
    <<"h","e","l","l","o">>
WordHey ==
    <<"h","e","y">>
WordYo ==
    <<"y","o">>
WordSup ==
    <<"s","u","p">>
\* rule_based_reply line 82
WordHowAreYou ==
    <<"h","o","w"," ","a","r","e"," ","y","o","u">>
\* rule_based_reply line 84
WordWhoAreYou ==
    <<"w","h","o"," ","a","r","e"," ","y","o","u">>
\* rule_based_reply line 86
WordHelp ==
    <<"h","e","l","p">>
\* rule_based_reply line 92
WordBye ==
    <<"b","y","e">>
WordGoodnight ==
    <<"g","o","o","d","n","i","g","h","t">>
WordGoodNight ==
    <<"g","o","o","d"," ","n","i","g","h","t">>

\* ------------------------------------------------------------------------
\* Python string operations
\* ------------------------------------------------------------------------

UpperLetters ==
    <<"A","B","C","D","E","F","G","H","I","J","K","L","M",
      "N","O","P","Q","R","S","T","U","V","W","X","Y","Z">>

LowerLetters ==
    <<"a","b","c","d","e","f","g","h","i","j","k","l","m",
      "n","o","p","q","r","s","t","u","v","w","x","y","z">>

\* Characters str.strip() removes (ASCII whitespace).
Whitespace == {" ", "\t", "\n", "\r", "\f"}

SetMin(S) == CHOOSE x \in S : \A y \in S : x <= y

SetMax(S) == CHOOSE x \in S : \A y \in S : x >= y

LowerChar(c) ==
    IF c \in {UpperLetters[i] : i \in 1..Len(UpperLetters)}
    THEN LowerLetters[CHOOSE i \in 1..Len(UpperLetters) : UpperLetters[i] = c]
    ELSE c

\* str.lower()
lower(s) == [i \in 1..Len(s) |-> LowerChar(s[i])]

\* str.strip()
strip(s) ==
    LET keep == {i \in 1..Len(s) : s[i] \notin Whitespace}
    IN  IF keep = {} THEN <<>> ELSE SubSeq(s, SetMin(keep), SetMax(keep))

\* str.startswith(p)
startswith(s, p) == Len(p) <= Len(s) /\ SubSeq(s, 1, Len(p)) = p

\* p in s
contains(s, p) == \E i \in 0..(Len(s) - Len(p)) : SubSeq(s, i + 1, i + Len(p)) = p

\* s.split(sep, 1)[1] for a one-character sep that occurs in s
split1_tail(s, sep) ==
    LET at == SetMin({i \in 1..Len(s) : s[i] = sep[1]})
    IN  SubSeq(s, at + 1, Len(s))

\* s.split(sep)[0] for a one-character sep
split_head(s, sep) ==
    LET at == {i \in 1..Len(s) : s[i] = sep}
    IN  IF at = {} THEN s ELSE SubSeq(s, 1, SetMin(at) - 1)

\* s[:n]
take(s, n) == SubSeq(s, 1, IF Len(s) < n THEN Len(s) ELSE n)

RECURSIVE join(_, _)
\* sep.join(parts)
join(sep, parts) ==
    IF parts = <<>> THEN <<>>
    ELSE IF Len(parts) = 1 THEN parts[1]
    ELSE parts[1] \o sep \o join(sep, Tail(parts))

Reverse(s) == [i \in 1..Len(s) |-> s[Len(s) + 1 - i]]

\* ------------------------------------------------------------------------
\* Inputs of the model
\* ------------------------------------------------------------------------

NameAnn ==
    <<"A","n","n"," ","L","e","e">>
MsgConsentYes ==
    <<"c","o","n","s","e","n","t",":"," ","r","e","m","e","m","b","e","r",":"," ","y","e","s">>
MsgConsentNo ==
    <<" ","C","o","n","s","e","n","t",":"," ","N","O"," ">>
MsgRemember ==
    <<"R","e","m","e","m","b","e","r",":"," ","L","i","k","e","s"," ","T","e","a"," ">>
MsgForget ==
    <<"f","o","r","g","e","t",":"," ","L","i","k","e","s"," ","T","e","a">>
MsgPlain ==
    <<"o","k"," ","c","o","o","l">>
FactTea ==
    <<"L","i","k","e","s"," ","T","e","a">>
FactHead ==
    <<"f","a","c","t"," ">>
LlmCanned ==
    <<" ","s","u","r","e"," ","t","h","i","n","g","!"," ","\n">>
LlmTimeout ==
    <<"R","e","q","u","e","s","t"," ","t","i","m","e","d"," ","o","u","t">>

MsgConsentEmpty ==
    <<"C","o","n","s","e","n","t",":"," ">>
MsgRememberEmpty ==
    <<"r","e","m","e","m","b","e","r",":"," "," ">>
MsgForgetEmpty ==
    <<"F","O","R","G","E","T",":">>
MsgRememberBob ==
    <<" ","r","e","m","e","m","b","e","r",":"," ","I"," ","m","e","t"," ","B","o","b",":"," ",
      "a","g","e"," ","3","0">>
MsgForgetBob ==
    <<"F","o","r","g","e","t",":","I"," ","m","e","t"," ","B","o","b",":"," ","a","g","e"," ",
      "3","0"," ">>
FactBob ==
    <<"I"," ","m","e","t"," ","B","o","b",":"," ","a","g","e"," ","3","0">>
MsgPleaseRemember ==
    <<"p","l","e","a","s","e"," ","r","e","m","e","m","b","e","r",":"," ","x">>

NameBob ==
    <<"B","o","b">>
MsgHello ==
    <<"h","e","l","l","o">>
MsgHelloPadded ==
    <<" ","H","e","l","l","o"," ">>
MsgHelloThere ==
    <<"h","e","l","l","o"," ","t","h","e","r","e">>
MsgHowWho ==
    <<"H","o","w"," ","a","r","e"," ","y","o","u","?"," ","w","h","o"," ","a","r","e"," ","y",
      "o","u">>
MsgWhoHelp ==
    <<"w","h","o"," ","a","r","e"," ","y","o","u","?"," ","h","e","l","p">>
MsgHelpRemember ==
    <<"H","E","L","P"," ","m","e"," ","r","e","m","e","m","b","e","r",":"," ","x">>
MsgRememberForget ==
    <<"p","l","e","a","s","e"," ","r","e","m","e","m","b","e","r",":"," ","f","o","r","g","e",
      "t",":"," ","b","y","e">>
MsgForgetBye ==
    <<"p","l","e","a","s","e"," ","f","o","r","g","e","t",":"," ","b","y","e">>
MsgGoodnight ==
    <<"G","o","o","d","n","i","g","h","t">>
MsgGoodNight ==
    <<"g","o","o","d"," ","n","i","g","h","t"," ","a","l","l">>
MsgByeSup ==
    <<"b","y","e"," ","s","u","p">>
MsgSup ==
    <<"s","u","p">>

\* Speakers (agent_key values).
Keys == {"a1", "a2"}

\* Request handlers that can be in flight.
Workers == {"w1", "w2"}

\* A Payload (lines 36-44); position, object_name and timestamp are never read.
Turn(k, n, m) ==
    [agent_key |-> k, agent_name |-> n, message |-> m, object_key |-> "obj", region |-> "sim"]

\* The requests the model sends.
Payloads ==
    {Turn("a1", NameAnn, m) : m \in {MsgConsentYes, MsgConsentNo, MsgRemember, MsgForget, MsgPlain}}
    \cup {Turn("a2", <<>>, m) : m \in {MsgConsentYes, MsgRemember, MsgPlain}}

\* Requests with degenerate and nested command arguments, from one speaker.
PayloadsEdge ==
    {Turn("a1", NameAnn, m) :
        m \in {MsgConsentEmpty, MsgConsentYes, MsgConsentNo, MsgRememberEmpty, MsgForgetEmpty,
               MsgRememberBob, MsgForgetBob, MsgPleaseRemember}}

\* Requests of one speaker that several handlers receive at the same time.
PayloadsConc ==
    {Turn("a1", NameAnn, m) : m \in {MsgConsentYes, MsgConsentNo, MsgRemember, MsgForget, MsgPlain}}

\* Speaker names, plain messages and fact lists handed to the rules.
RuleNames == {NameAnn, <<>>, NameBob}

RuleMsgs ==
    {MsgHello, MsgHelloPadded, MsgHelloThere, MsgHowWho, MsgWhoHelp, MsgHelpRemember,
     MsgRememberForget, MsgForgetBye, MsgGoodnight, MsgGoodNight, MsgByeSup, MsgSup, MsgPlain,
     MsgPleaseRemember}

\* A fact of LongLen characters.
LongFact(c) == [i \in 1..LongLen |-> c]

RuleFactLists ==
    {<<>>, <<FactTea>>, [i \in 1..(RuleFacts + 1) |-> FactHead \o <<LowerLetters[i]>>],
     <<LongFact("p"), LongFact("q"), LongFact("r")>>}

NoPayload == Turn("", <<>>, <<>>)

\* A memory.db left by an earlier run: one fact more than llm_reply passes on.
PreloadedMemory ==
    [i \in 1..(LlmFacts + 1) |-> [agent_key |-> "a1", fact |-> FactHead \o <<LowerLetters[i]>>]]

\* Every fact text the model can store.
AllFacts == {FactTea} \cup {PreloadedMemory[i].fact : i \in 1..Len(PreloadedMemory)}

\* ------------------------------------------------------------------------
\* State
\* ------------------------------------------------------------------------

VARIABLES
    apiKey,      \* OPENAI_API_KEY is set (line 11)
    convos,      \* table convos: sequence of rows in rowid order
    memory,      \* table memory: sequence of rows in rowid order
    consent,     \* table consent: set of rows
    received,    \* number of requests handed to chat
    pc,          \* per handler: position in chat
    payload,     \* per handler: the request
    mem,         \* per handler: local mem (line 163)
    consent_ok,  \* per handler: local consent_ok (line 164)
    messages,    \* per handler: the messages sent to the backend (lines 111-114)
    reply,       \* per handler: the returned reply
    trace        \* per handler: store and backend operations of this request, in order

vars ==
    <<apiKey, convos, memory, consent, received, pc, payload, mem, consent_ok,
      messages, reply, trace>>

\* ------------------------------------------------------------------------
\* Store helpers (lines 47-75)
\* ------------------------------------------------------------------------

\* facts_of as it would be without the WHERE agent_key=? of line 48.
facts_of_AnySpeaker(table, agent_key) == [i \in 1..Len(table) |-> table[i].fact]

\* SELECT fact FROM memory WHERE agent_key=? in rowid order.
facts_of(table, agent_key) ==
    LET rows == SelectSeq(table, LAMBDA r : r.agent_key = agent_key)
    IN  [i \in 1..Len(rows) |-> rows[i].fact]

\* get_mem: the SELECT has no ORDER BY, so the row order is the engine's choice;
\* the model allows a forward and a reverse scan.
get_mem(table, agent_key) ==
    {facts_of(table, agent_key), Reverse(facts_of(table, agent_key))}

\* set_consent as it would be with INSERT OR IGNORE: the first write stays.
set_consent_InsertOrIgnore(table, agent_key, allowed) ==
    IF \E r \in table : r.agent_key = agent_key THEN table
    ELSE table \cup {[agent_key |-> agent_key, allowed |-> IF allowed THEN 1 ELSE 0]}

\* set_consent as it would be with a plain INSERT into a table without the primary key.
set_consent_PlainInsert(table, agent_key, allowed) ==
    table \cup {[agent_key |-> agent_key, allowed |-> IF allowed THEN 1 ELSE 0]}

\* INSERT OR REPLACE INTO consent: agent_key is the PRIMARY KEY.
set_consent(table, agent_key, allowed) ==
    {r \in table : r.agent_key # agent_key}
    \cup {[agent_key |-> agent_key, allowed |-> IF allowed THEN 1 ELSE 0]}

\* get_consent as it would be if a missing row counted as consent.
get_consent_AbsentAllowed(table, agent_key) ==
    LET rows == {r \in table : r.agent_key = agent_key}
    IN  IF rows = {} THEN "True"
        ELSE IF (CHOOSE r \in rows : TRUE).allowed = 1 THEN "True" ELSE "False"

\* get_consent returns (row and row[0] == 1): None when there is no row.
get_consent(table, agent_key) ==
    LET rows == {r \in table : r.agent_key = agent_key}
    IN  IF rows = {} THEN "None"
        ELSE IF (CHOOSE r \in rows : TRUE).allowed = 1 THEN "True" ELSE "False"

\* Python truthiness of what get_consent returns.
Truthy(v) == v = "True"

\* add_fact as it would be without the UNIQUE constraint: a plain INSERT.
add_fact_AlwaysInsert(table, agent_key, fact) ==
    Append(table, [agent_key |-> agent_key, fact |-> strip(fact)])

\* INSERT OR IGNORE INTO memory with UNIQUE(agent_key, fact) ON CONFLICT IGNORE.
add_fact(table, agent_key, fact) ==
    LET row == [agent_key |-> agent_key, fact |-> strip(fact)]
    IN  IF \E i \in 1..Len(table) : table[i] = row THEN table ELSE Append(table, row)

\* remove_fact as it would be with the fact test missing from the WHERE clause.
remove_fact_AllOfSpeaker(table, agent_key, fact) ==
    SelectSeq(table, LAMBDA r : r.agent_key # agent_key)

\* DELETE FROM memory WHERE agent_key=? AND fact=?
remove_fact(table, agent_key, fact) ==
    SelectSeq(table, LAMBDA r : ~(r.agent_key = agent_key /\ r.fact = strip(fact)))

\* ------------------------------------------------------------------------
\* Rules fallback (lines 78-96)
\* ------------------------------------------------------------------------

\* rule_based_reply as it would be without the [:300] of line 95.
rule_based_reply_NoLimit(name, msg, facts) ==
    LET low == strip(lower(msg))
    IN  IF low \in {WordHi, WordHello, WordHey, WordYo, WordSup}
        THEN RuleGreetHead \o (IF name # <<>> THEN split_head(name, " ") ELSE RuleThere)
             \o RuleGreetTail
        ELSE IF contains(low, WordHowAreYou) THEN RuleHowAreYou
        ELSE IF contains(low, WordWhoAreYou) THEN RuleWhoAreYou
        ELSE IF contains(low, WordHelp) THEN RuleHelp
        ELSE IF contains(low, PrefixRemember) THEN RuleRemember
        ELSE IF contains(low, PrefixForget) THEN RuleForget
        ELSE IF contains(low, WordBye) \/ contains(low, WordGoodnight)
                \/ contains(low, WordGoodNight) THEN RuleBye
        ELSE IF facts # <<>>
        THEN RuleNotedHead \o join(SepMem, take(facts, RuleFacts))
        ELSE RuleTellMore

\* rule_based_reply as it would be with the help test ahead of the "who are you" test.
rule_based_reply_HelpFirst(name, msg, facts) ==
    LET low == strip(lower(msg))
    IN  IF low \in {WordHi, WordHello, WordHey, WordYo, WordSup}
        THEN RuleGreetHead \o (IF name # <<>> THEN split_head(name, " ") ELSE RuleThere)
             \o RuleGreetTail
        ELSE IF contains(low, WordHowAreYou) THEN RuleHowAreYou
        ELSE IF contains(low, WordHelp) THEN RuleHelp
        ELSE IF contains(low, WordWhoAreYou) THEN RuleWhoAreYou
        ELSE IF contains(low, PrefixRemember) THEN RuleRemember
        ELSE IF contains(low, PrefixForget) THEN RuleForget
        ELSE IF contains(low, WordBye) \/ contains(low, WordGoodnight)
                \/ contains(low, WordGoodNight) THEN RuleBye
        ELSE IF facts # <<>>
        THEN take(RuleNotedHead \o join(SepMem, take(facts, RuleFacts)), RuleReplyMax)
        ELSE RuleTellMore

rule_based_reply(name, msg, facts) ==
    LET low == strip(lower(msg))
    IN  IF low \in {WordHi, WordHello, WordHey, WordYo, WordSup}
        THEN RuleGreetHead \o (IF name # <<>> THEN split_head(name, " ") ELSE RuleThere)
             \o RuleGreetTail
        ELSE IF contains(low, WordHowAreYou) THEN RuleHowAreYou
        ELSE IF contains(low, WordWhoAreYou) THEN RuleWhoAreYou
        ELSE IF contains(low, WordHelp) THEN RuleHelp
        ELSE IF contains(low, PrefixRemember) THEN RuleRemember
        ELSE IF contains(low, PrefixForget) THEN RuleForget
        ELSE IF contains(low, WordBye) \/ contains(low, WordGoodnight)
                \/ contains(low, WordGoodNight) THEN RuleBye
        ELSE IF facts # <<>>
        THEN take(RuleNotedHead \o join(SepMem, take(facts, RuleFacts)), RuleReplyMax)
        ELSE RuleTellMore

\* ------------------------------------------------------------------------
\* LLM helper (lines 99-123)
\* ------------------------------------------------------------------------

\* llm_system as it would be without the consent test of line 108.
llm_system_IgnoreConsent(facts, ok) ==
    SystemBase \o (IF facts # <<>>
                   THEN SystemKnown \o join(SepKnown, take(facts, LlmFacts)) \o Newline
                   ELSE <<>>)

\* The system prompt (lines 103-109).
llm_system(facts, ok) ==
    SystemBase \o (IF Truthy(ok) /\ facts # <<>>
                   THEN SystemKnown \o join(SepKnown, take(facts, LlmFacts)) \o Newline
                   ELSE <<>>)

\* messages (lines 111-114).
llm_messages(agent_name, msg, facts, ok) ==
    <<[role |-> "system", content |-> llm_system(facts, ok)],
      [role |-> "user", content |-> agent_name \o NameSep \o msg]>>

\* openai.ChatCompletion.create: it answers with some text, which may repeat what the
\* system prompt added to its fixed part, or it raises.
Backend(msgs) ==
    LET system == msgs[1].content
        echo == SubSeq(system, Len(SystemBase) + 1, Len(system))
    IN  {[ok |-> TRUE, text |-> t] : t \in {LlmCanned, <<>>, echo}}
        \cup {[ok |-> FALSE, text |-> LlmTimeout]}

\* ------------------------------------------------------------------------
\* chat (lines 134-175)
\* ------------------------------------------------------------------------

\* msg and low of lines 144-145.
Msg(p) == strip(p.message)

Low(p) == lower(Msg(p))

\* Kind as it would be if the commands were looked for anywhere in the message.
Kind_Substring(p) ==
    IF contains(Low(p), PrefixRemember) THEN "remember"
    ELSE IF contains(Low(p), PrefixForget) THEN "forget"
    ELSE IF contains(Low(p), PrefixConsent) THEN "consent"
    ELSE "plain"

\* The branch chat takes (lines 148, 153, 158, 163).
Kind(p) ==
    IF startswith(Low(p), PrefixConsent) THEN "consent"
    ELSE IF startswith(Low(p), PrefixRemember) THEN "remember"
    ELSE IF startswith(Low(p), PrefixForget) THEN "forget"
    ELSE "plain"

\* The convos row of lines 137-141 (ts, the handler's own clock read, is left out).
ConvoRow(p) ==
    [agent_key |-> p.agent_key, agent_name |-> p.agent_name, object_key |-> p.object_key,
     region |-> p.region, message |-> p.message]

Init ==
    /\ apiKey \in BOOLEAN
    /\ convos = <<>>
    /\ memory \in {<<>>, PreloadedMemory}
    /\ consent = {}
    /\ received = 0
    /\ pc = [w \in Workers |-> "idle"]
    /\ payload = [w \in Workers |-> NoPayload]
    /\ mem = [w \in Workers |-> <<>>]
    /\ consent_ok = [w \in Workers |-> "None"]
    /\ messages = [w \in Workers |-> <<>>]
    /\ reply = [w \in Workers |-> <<>>]
    /\ trace = [w \in Workers |-> <<>>]

\* Line 135: the transport hands a validated payload to chat.
Chat_Receive(w, p) ==
    /\ pc[w] = "idle"
    /\ received < MaxTurns
    /\ received' = received + 1
    /\ payload' = [payload EXCEPT ![w] = p]
    /\ pc' = [pc EXCEPT ![w] = "received"]
    /\ UNCHANGED <<apiKey, convos, memory, consent, mem, consent_ok, messages, reply, trace>>

\* Lines 136-142: the turn is inserted into convos and committed.
Chat_Log(w) ==
    /\ pc[w] = "received"
    /\ convos' = Append(convos, ConvoRow(payload[w]))
    /\ trace' = [trace EXCEPT ![w] = Append(@, "append_turn")]
    /\ pc' = [pc EXCEPT ![w] = "logged"]
    /\ UNCHANGED <<apiKey, memory, consent, received, payload, mem, consent_ok, messages,
                   reply>>

\* Chat_Consent as it would be with the command handled ahead of the convos insert.
Chat_Consent_BeforeLog(w) ==
    /\ pc[w] = "received"
    /\ Kind(payload[w]) = "consent"
    /\ LET allow == contains(Low(payload[w]), TokenYes)
       IN  /\ consent' = set_consent(consent, payload[w].agent_key, allow)
           /\ reply' = [reply EXCEPT
                  ![w] = ReplyConsentHead \o (IF allow THEN ReplyOn ELSE ReplyOff)]
    /\ trace' = [trace EXCEPT ![w] = Append(@, "set_consent")]
    /\ pc' = [pc EXCEPT ![w] = "done"]
    /\ UNCHANGED <<apiKey, convos, memory, received, payload, mem, consent_ok, messages>>

\* Chat_Consent as it would be if turning consent off also deleted the speaker's facts.
Chat_Consent_ForgetsOnOff(w) ==
    /\ pc[w] = "logged"
    /\ Kind(payload[w]) = "consent"
    /\ LET allow == contains(Low(payload[w]), TokenYes)
       IN  /\ consent' = set_consent(consent, payload[w].agent_key, allow)
           /\ memory' = IF allow THEN memory
                        ELSE SelectSeq(memory, LAMBDA r : r.agent_key # payload[w].agent_key)
           /\ reply' = [reply EXCEPT
                  ![w] = ReplyConsentHead \o (IF allow THEN ReplyOn ELSE ReplyOff)]
    /\ trace' = [trace EXCEPT ![w] = Append(@, "set_consent")]
    /\ pc' = [pc EXCEPT ![w] = "done"]
    /\ UNCHANGED <<apiKey, convos, received, payload, mem, consent_ok, messages>>

\* Lines 148-151.
Chat_Consent(w) ==
    /\ pc[w] = "logged"
    /\ Kind(payload[w]) = "consent"
    /\ LET allow == contains(Low(payload[w]), TokenYes)
       IN  /\ consent' = set_consent(consent, payload[w].agent_key, allow)
           /\ reply' = [reply EXCEPT
                  ![w] = ReplyConsentHead \o (IF allow THEN ReplyOn ELSE ReplyOff)]
    /\ trace' = [trace EXCEPT ![w] = Append(@, "set_consent")]
    /\ pc' = [pc EXCEPT ![w] = "done"]
    /\ UNCHANGED <<apiKey, convos, memory, received, payload, mem, consent_ok, messages>>

\* Chat_Remember as it would be if the fact were cut from low instead of msg.
Chat_Remember_FromLow(w) ==
    /\ pc[w] = "logged"
    /\ Kind(payload[w]) = "remember"
    /\ LET fact == strip(split1_tail(Low(payload[w]), Colon))
       IN  /\ memory' = add_fact(memory, payload[w].agent_key, fact)
           /\ reply' = [reply EXCEPT ![w] = ReplySaved \o fact \o ReplyQuote]
    /\ trace' = [trace EXCEPT ![w] = Append(@, "add_fact")]
    /\ pc' = [pc EXCEPT ![w] = "done"]
    /\ UNCHANGED <<apiKey, convos, consent, received, payload, mem, consent_ok, messages>>

\* Lines 153-156.
Chat_Remember(w) ==
    /\ pc[w] = "logged"
    /\ Kind(payload[w]) = "remember"
    /\ LET fact == strip(split1_tail(Msg(payload[w]), Colon))
       IN  /\ memory' = add_fact(memory, payload[w].agent_key, fact)
           /\ reply' = [reply EXCEPT ![w] = ReplySaved \o fact \o ReplyQuote]
    /\ trace' = [trace EXCEPT ![w] = Append(@, "add_fact")]
    /\ pc' = [pc EXCEPT ![w] = "done"]
    /\ UNCHANGED <<apiKey, convos, consent, received, payload, mem, consent_ok, messages>>

\* Lines 158-161.
Chat_Forget(w) ==
    /\ pc[w] = "logged"
    /\ Kind(payload[w]) = "forget"
    /\ LET fact == strip(split1_tail(Msg(payload[w]), Colon))
       IN  /\ memory' = remove_fact(memory, payload[w].agent_key, fact)
           /\ reply' = [reply EXCEPT ![w] = ReplyForgot \o fact \o ReplyQuote]
    /\ trace' = [trace EXCEPT ![w] = Append(@, "remove_fact")]
    /\ pc' = [pc EXCEPT ![w] = "done"]
    /\ UNCHANGED <<apiKey, convos, consent, received, payload, mem, consent_ok, messages>>

\* Chat_GetMem as it would be if the command branches did not return.
Chat_GetMem_AnyKind(w) ==
    /\ pc[w] = "logged"
    /\ \E facts \in get_mem(memory, payload[w].agent_key) :
           mem' = [mem EXCEPT ![w] = facts]
    /\ trace' = [trace EXCEPT ![w] = Append(@, "get_mem")]
    /\ pc' = [pc EXCEPT ![w] = "got_mem"]
    /\ UNCHANGED <<apiKey, convos, memory, consent, received, payload, consent_ok,
                   messages, reply>>

\* Line 163.
Chat_GetMem(w) ==
    /\ pc[w] = "logged"
    /\ Kind(payload[w]) = "plain"
    /\ \E facts \in get_mem(memory, payload[w].agent_key) :
           mem' = [mem EXCEPT ![w] = facts]
    /\ trace' = [trace EXCEPT ![w] = Append(@, "get_mem")]
    /\ pc' = [pc EXCEPT ![w] = "got_mem"]
    /\ UNCHANGED <<apiKey, convos, memory, consent, received, payload, consent_ok,
                   messages, reply>>

\* Line 164.
Chat_GetConsent(w) ==
    /\ pc[w] = "got_mem"
    /\ consent_ok' = [consent_ok EXCEPT ![w] = get_consent(consent, payload[w].agent_key)]
    /\ trace' = [trace EXCEPT ![w] = Append(@, "get_consent")]
    /\ pc' = [pc EXCEPT ![w] = "got_consent"]
    /\ UNCHANGED <<apiKey, convos, memory, consent, received, payload, mem, messages, reply>>

\* Chat_Llm as it would be with the call tried again after an error.
Chat_Llm_Retry(w) ==
    /\ pc[w] = "got_consent"
    /\ apiKey
    /\ LET msgs == llm_messages(payload[w].agent_name, Msg(payload[w]), mem[w], consent_ok[w])
       IN  /\ messages' = [messages EXCEPT ![w] = msgs]
           /\ \E r \in Backend(msgs) :
                  /\ reply' = [reply EXCEPT
                         ![w] = IF r.ok THEN strip(r.text) \o ReplyLlmTag ELSE <<>>]
                  /\ trace' = [trace EXCEPT
                         ![w] = IF r.ok THEN Append(@, "llm") ELSE @ \o <<"llm", "raised">>]
                  /\ pc' = [pc EXCEPT ![w] = IF r.ok THEN "done" ELSE "got_consent"]
    /\ UNCHANGED <<apiKey, convos, memory, consent, received, payload, mem, consent_ok>>

\* Chat_Llm as it would be without the provenance marker of line 170.
Chat_Llm_NoTag(w) ==
    /\ pc[w] = "got_consent"
    /\ apiKey
    /\ LET msgs == llm_messages(payload[w].agent_name, Msg(payload[w]), mem[w], consent_ok[w])
       IN  /\ messages' = [messages EXCEPT ![w] = msgs]
           /\ \E r \in Backend(msgs) :
                  /\ reply' = [reply EXCEPT
                         ![w] = IF r.ok THEN strip(r.text) ELSE ReplyFallbackHead \o r.text]
                  /\ trace' = [trace EXCEPT
                         ![w] = IF r.ok THEN Append(@, "llm") ELSE @ \o <<"llm", "raised">>]
    /\ pc' = [pc EXCEPT ![w] = "done"]
    /\ UNCHANGED <<apiKey, convos, memory, consent, received, payload, mem, consent_ok>>

\* Lines 167-173: the backend is called once; its text or its error makes the reply.
Chat_Llm(w) ==
    /\ pc[w] = "got_consent"
    /\ apiKey
    /\ LET msgs == llm_messages(payload[w].agent_name, Msg(payload[w]), mem[w], consent_ok[w])
       IN  /\ messages' = [messages EXCEPT ![w] = msgs]
           /\ \E r \in Backend(msgs) :
                  /\ reply' = [reply EXCEPT
                         ![w] = IF r.ok THEN strip(r.text) \o ReplyLlmTag
                                ELSE ReplyFallbackHead \o r.text]
                  /\ trace' = [trace EXCEPT
                         ![w] = IF r.ok THEN Append(@, "llm") ELSE @ \o <<"llm", "raised">>]
    /\ pc' = [pc EXCEPT ![w] = "done"]
    /\ UNCHANGED <<apiKey, convos, memory, consent, received, payload, mem, consent_ok>>

\* Line 175: no API key.
Chat_Rules(w) ==
    /\ pc[w] = "got_consent"
    /\ ~apiKey
    /\ reply' = [reply EXCEPT
           ![w] = rule_based_reply(payload[w].agent_name, Msg(payload[w]), mem[w])]
    /\ trace' = [trace EXCEPT ![w] = Append(@, "rules")]
    /\ pc' = [pc EXCEPT ![w] = "done"]
    /\ UNCHANGED <<apiKey, convos, memory, consent, received, payload, mem, consent_ok,
                   messages>>

\* Chat_StoreError as it would be without the commit of line 142: the error discards the
\* pending insert.
Chat_StoreError_Uncommitted(w) ==
    /\ pc[w] \in {"logged", "got_mem"}
    /\ convos' = SubSeq(convos, 1, Len(convos) - 1)
    /\ trace' = [trace EXCEPT ![w] = Append(@, "error")]
    /\ pc' = [pc EXCEPT ![w] = "failed"]
    /\ UNCHANGED <<apiKey, memory, consent, received, payload, mem, consent_ok,
                   messages, reply>>

\* A statement after the committed insert raises sqlite3.Error (lines 52, 64, 71, 48, 59):
\* chat does not catch it, the request ends without a reply.
Chat_StoreError(w) ==
    /\ pc[w] \in {"logged", "got_mem"}
    /\ trace' = [trace EXCEPT ![w] = Append(@, "error")]
    /\ pc' = [pc EXCEPT ![w] = "failed"]
    /\ UNCHANGED <<apiKey, convos, memory, consent, received, payload, mem, consent_ok,
                   messages, reply>>

\* The handler returns; its locals are gone.
Chat_Return(w) ==
    /\ pc[w] \in {"done", "failed"}
    /\ pc' = [pc EXCEPT ![w] = "idle"]
    /\ payload' = [payload EXCEPT ![w] = NoPayload]
    /\ mem' = [mem EXCEPT ![w] = <<>>]
    /\ consent_ok' = [consent_ok EXCEPT ![w] = "None"]
    /\ messages' = [messages EXCEPT ![w] = <<>>]
    /\ reply' = [reply EXCEPT ![w] = <<>>]
    /\ trace' = [trace EXCEPT ![w] = <<>>]
    /\ UNCHANGED <<apiKey, convos, memory, consent, received>>

Step(w) ==
    \/ \E p \in Payloads : Chat_Receive(w, p)
    \/ Chat_Log(w)
    \/ Chat_Consent(w)
    \/ Chat_Remember(w)
    \/ Chat_Forget(w)
    \/ Chat_GetMem(w)
    \/ Chat_GetConsent(w)
    \/ Chat_Llm(w)
    \/ Chat_Rules(w)
    \/ Chat_StoreError(w)
    \/ Chat_Return(w)

\* One uvicorn process: chat has no await, so requests are handled one at a time.
Next == Step("w1")

Spec == Init /\ [][Next]_vars

\* The same handler fed with the requests of PayloadsEdge.
StepEdge(w) ==
    \/ \E p \in PayloadsEdge : Chat_Receive(w, p)
    \/ Chat_Log(w)
    \/ Chat_Consent(w)
    \/ Chat_Remember(w)
    \/ Chat_Forget(w)
    \/ Chat_GetMem(w)
    \/ Chat_GetConsent(w)
    \/ Chat_Llm(w)
    \/ Chat_Rules(w)
    \/ Chat_StoreError(w)
    \/ Chat_Return(w)

NextEdge == StepEdge("w1")

SpecEdge == Init /\ [][NextEdge]_vars

\* Several processes serve chat on one memory.db: SQLite runs each statement with its commit
\* as one transaction, so the handlers interleave statement by statement.
StepConc(w) ==
    \/ \E p \in PayloadsConc : Chat_Receive(w, p)
    \/ Chat_Log(w)
    \/ Chat_Consent(w)
    \/ Chat_Remember(w)
    \/ Chat_Forget(w)
    \/ Chat_GetMem(w)
    \/ Chat_GetConsent(w)
    \/ Chat_Llm(w)
    \/ Chat_Rules(w)
    \/ Chat_StoreError(w)
    \/ Chat_Return(w)

NextConc == \E w \in Workers : StepConc(w)

\* A fresh memory.db.
InitConc == Init /\ memory = <<>>

SpecConc == InitConc /\ [][NextConc]_vars

\* chat at line 163 with OPENAI_API_KEY unset: a plain message of a speaker has been logged,
\* and memory.db holds the speaker's facts.
InitRules ==
    \E n \in RuleNames, m \in RuleMsgs, f \in RuleFactLists :
        /\ apiKey = FALSE
        /\ convos = <<ConvoRow(Turn("a1", n, m))>>
        /\ memory = [i \in 1..Len(f) |-> [agent_key |-> "a1", fact |-> f[i]]]
        /\ consent = {}
        /\ received = 1
        /\ pc = [w \in Workers |-> IF w = "w1" THEN "logged" ELSE "idle"]
        /\ payload = [w \in Workers |-> IF w = "w1" THEN Turn("a1", n, m) ELSE NoPayload]
        /\ mem = [w \in Workers |-> <<>>]
        /\ consent_ok = [w \in Workers |-> "None"]
        /\ messages = [w \in Workers |-> <<>>]
        /\ reply = [w \in Workers |-> <<>>]
        /\ trace = [w \in Workers |-> IF w = "w1" THEN <<"append_turn">> ELSE <<>>]

NextRules == Chat_GetMem("w1") \/ Chat_GetConsent("w1") \/ Chat_Rules("w1")

SpecRules == InitRules /\ [][NextRules]_vars

\* ------------------------------------------------------------------------
\* Properties
\* ------------------------------------------------------------------------

\* The fact texts stored for a speaker.
StoredFacts(k) == {memory[i].fact : i \in {j \in 1..Len(memory) : memory[j].agent_key = k}}

\* The stored consent flag of a speaker is true.
Consenting(k) == \E r \in consent : r.agent_key = k /\ r.allowed = 1

\* The message of a request starts with the given command prefix.
HasPrefix(p, prefix) == startswith(lower(strip(p.message)), prefix)

IsCommand(p) == \E prefix \in {PrefixConsent, PrefixRemember, PrefixForget} : HasPrefix(p, prefix)

\* The handler has answered a plain message.
AnsweredPlain(w) == pc[w] = "done" /\ ~IsCommand(payload[w])

\* The backend call of the handler's request raised.
BackendFailed(w) == pc[w] = "done" /\ Len(trace[w]) > 0 /\ trace[w][Len(trace[w])] = "raised"

\* C1: the reply to a plain message from a speaker whose consent is false or unset
\* contains none of that speaker's stored facts, with or without a backend.
C1_NoFactWithoutConsent ==
    \A w \in Workers :
        (AnsweredPlain(w) /\ ~Consenting(payload[w].agent_key))
            => \A f \in StoredFacts(payload[w].agent_key) : ~contains(reply[w], f)

\* C2: when the backend call fails, the reply is non-empty and is the fallback generator's
\* output for (name, message, facts) next to the failure detail, and the request has
\* exactly one convos row.
C2_FailureReplyIsFallback ==
    \A w \in Workers :
        BackendFailed(w)
            => /\ reply[w] # <<>>
               /\ contains(reply[w],
                           rule_based_reply(payload[w].agent_name, strip(payload[w].message),
                                            mem[w]))
               /\ Len(convos) = received

\* The handler has inserted its turn.
Logged(w) == pc[w] \notin {"idle", "received"}

\* The convos row of the handler's request is the newest row.
OwnRowIsLast(w) == Len(convos) > 0 /\ convos[Len(convos)] = ConvoRow(payload[w])

\* C3: N requests of any kind and outcome add exactly N rows to convos (a request that
\* has only arrived has not added its row yet), and no row is ever changed or deleted.
C3_LogGainsOnePerRequest ==
    /\ [](Len(convos) = received - Cardinality({w \in Workers : pc[w] = "received"}))
    /\ [][/\ Len(convos') >= Len(convos)
          /\ SubSeq(convos', 1, Len(convos)) = convos]_vars

\* Three requests, the last of which ended in a store error after a command.
C3_Witness ==
    /\ pc["w1"] = "failed"
    /\ received = 3
    /\ Len(convos) = 3
    /\ HasPrefix([message |-> convos[1].message], PrefixConsent)

\* C4: in every request the convos insert happens exactly once and before any consent
\* write, memory write, store read or backend call, and the row stays when the request
\* fails later.
C4_LogFirstAndOnce ==
    /\ [](\A w \in Workers :
            /\ ~Logged(w) => trace[w] = <<>>
            /\ Logged(w) =>
                  /\ trace[w][1] = "append_turn"
                  /\ Cardinality({i \in 1..Len(trace[w]) : trace[w][i] = "append_turn"}) = 1
                  /\ \E i \in 1..Len(convos) : convos[i] = ConvoRow(payload[w]))
    /\ [][(\/ consent' # consent
           \/ memory' # memory
           \/ \E w \in Workers : pc[w] # "idle" /\ pc'[w] # "idle" /\
                  (mem'[w] # mem[w] \/ consent_ok'[w] # consent_ok[w]
                   \/ messages'[w] # messages[w] \/ reply'[w] # reply[w]))
          => (convos' = convos /\ \E w \in Workers : Logged(w) /\ OwnRowIsLast(w))]_vars

\* A remember command whose INSERT raised: its turn is in convos.
C4_Witness ==
    \E w \in Workers :
        /\ pc[w] = "failed"
        /\ HasPrefix(payload[w], PrefixRemember)
        /\ trace[w] = <<"append_turn", "error">>
        /\ OwnRowIsLast(w)

\* C5: a request whose message starts with consent:, remember: or forget: never reads
\* the stores for a reply and never calls the backend or the fallback generator; it ends
\* with its one store write, whether or not a backend is configured.
C5_CommandsSkipBackend ==
    \A w \in Workers :
        (pc[w] # "idle" /\ IsCommand(payload[w]))
            => /\ \A i \in 1..Len(trace[w]) :
                      trace[w][i] \notin {"get_mem", "get_consent", "llm", "raised", "rules"}
               /\ messages[w] = <<>>
               /\ pc[w] = "done" =>
                      trace[w][Len(trace[w])] \in {"set_consent", "add_fact", "remove_fact"}

\* A command answered while a backend is configured.
C5_Witness ==
    \E w \in Workers :
        apiKey /\ pc[w] = "done" /\ HasPrefix(payload[w], PrefixForget)

\* A consent command of the speaker has been received.
ConsentCommandLogged(k) ==
    \E i \in 1..Len(convos) :
        convos[i].agent_key = k /\ HasPrefix([message |-> convos[i].message], PrefixConsent)

\* C6: a speaker who never issued a consent command is not consenting: get_consent is
\* not true for them, whatever else they or other speakers have sent.
C6_ConsentDefaultsFalse ==
    \A k \in Keys :
        ~ConsentCommandLogged(k)
            => /\ ~Truthy(get_consent(consent, k))
               /\ \A w \in Workers :
                      (payload[w].agent_key = k /\ pc[w] \in {"got_consent", "done"})
                          => ~Truthy(consent_ok[w])

\* a1 stored a fact and asks a plain question without ever opting in, after a2 opted in.
C6_Witness ==
    \E w \in Workers :
        /\ pc[w] = "got_consent"
        /\ payload[w].agent_key = "a1"
        /\ ~ConsentCommandLogged("a1")
        /\ Consenting("a2")
        /\ FactTea \in StoredFacts("a1")
        /\ consent_ok[w] = "None"

\* The text of the request the handler sent to the backend.
RequestText(w) == messages[w][1].content \o messages[w][2].content

\* The stored fact texts that occur in the handler's request.
FactsInRequest(w) == {f \in AllFacts : contains(RequestText(w), f)}

\* C7: the request sent to the backend holds stored facts only when the speaker's consent
\* is true and the speaker has facts; then it holds at most 10 facts, all of them the
\* speaker's own; otherwise it holds none.
C7_RequestFactsNeedConsent ==
    \A w \in Workers :
        messages[w] # <<>>
            => LET k == payload[w].agent_key
               IN  /\ FactsInRequest(w) \subseteq StoredFacts(k)
                   /\ Cardinality(FactsInRequest(w)) <= 10
                   /\ FactsInRequest(w) # {} => Consenting(k)
                   /\ (Consenting(k) /\ StoredFacts(k) # {}) => FactsInRequest(w) # {}

\* A consenting speaker with more than 10 facts, while another speaker has a fact too.
C7_Witness ==
    \E w \in Workers :
        /\ messages[w] # <<>>
        /\ Cardinality(StoredFacts(payload[w].agent_key)) > 10
        /\ Cardinality(FactsInRequest(w)) = 10
        /\ StoredFacts("a2") # {}

\* The fact text a remember: or forget: message names.
NamedFact(p) == strip(split1_tail(strip(p.message), Colon))

\* The memory row a remember: or forget: request is about.
NamedRow(p) == [agent_key |-> p.agent_key, fact |-> NamedFact(p)]

RowCount(table, row) == Cardinality({i \in 1..Len(table) : table[i] = row})

\* C8: no (agent_key, fact) pair occurs twice in memory; after a remember command the
\* pair occurs once, and a remember of a stored fact leaves the table as it was.
C8_FactPairUnique ==
    /\ [](\A i, j \in 1..Len(memory) : i # j => memory[i] # memory[j])
    /\ [][\A w \in Workers :
            (pc[w] = "logged" /\ pc'[w] = "done" /\ HasPrefix(payload[w], PrefixRemember))
                => /\ RowCount(memory', NamedRow(payload[w])) = 1
                   /\ RowCount(memory, NamedRow(payload[w])) = 1 => memory' = memory]_vars

\* a1 remembered, a2 remembered, a1 remembered the same again: a1's row is still the
\* first and only one of its kind.
C8_Witness ==
    /\ pc["w1"] = "done"
    /\ Len(convos) = 3
    /\ convos[1] = ConvoRow(Turn("a1", NameAnn, MsgRemember))
    /\ convos[3] = convos[1]
    /\ memory = <<[agent_key |-> "a1", fact |-> FactTea], [agent_key |-> "a2", fact |-> FactTea]>>

\* C9: after a forget command the named fact is not in the speaker's list and the reply
\* confirms it, whether or not the fact was stored (the DELETE of an absent fact ends the
\* request like any other), and every other row of memory stays in place.
C9_ForgetRemovesOnlyThat ==
    /\ [](\A w \in Workers :
            (pc[w] = "done" /\ HasPrefix(payload[w], PrefixForget))
                => /\ NamedFact(payload[w]) \notin StoredFacts(payload[w].agent_key)
                   /\ trace[w] = <<"append_turn", "remove_fact">>
                   /\ reply[w] = ReplyForgot \o NamedFact(payload[w]) \o ReplyQuote)
    /\ [][\A w \in Workers :
            (pc[w] = "logged" /\ pc'[w] = "done" /\ HasPrefix(payload[w], PrefixForget))
                => SelectSeq(memory', LAMBDA r : r # NamedRow(payload[w]))
                   = SelectSeq(memory, LAMBDA r : r # NamedRow(payload[w]))]_vars

\* a1 remembered a fact, forgot it, and forgot it again while its other facts are stored.
C9_Witness ==
    /\ pc["w1"] = "done"
    /\ Len(convos) = 3
    /\ convos[1] = ConvoRow(Turn("a1", NameAnn, MsgRemember))
    /\ convos[2] = ConvoRow(Turn("a1", NameAnn, MsgForget))
    /\ convos[3] = convos[2]
    /\ memory = PreloadedMemory
    /\ reply["w1"] = ReplyForgot \o FactTea \o ReplyQuote

\* The first of consent:, remember:, forget: the trimmed, lower-cased message starts with.
FirstPrefix(p) ==
    IF HasPrefix(p, PrefixConsent) THEN "consent"
    ELSE IF HasPrefix(p, PrefixRemember) THEN "remember"
    ELSE IF HasPrefix(p, PrefixForget) THEN "forget"
    ELSE "plain"

\* The store operation each branch of chat starts with.
BranchOp(kind) ==
    CASE kind = "consent" -> "set_consent"
      [] kind = "remember" -> "add_fact"
      [] kind = "forget" -> "remove_fact"
      [] kind = "plain" -> "get_mem"

\* C10: a request takes exactly one branch, the one of the first prefix its trimmed,
\* lower-cased message starts with; a message starting with consent: only writes the
\* consent table, whatever follows the prefix.
C10_FirstPrefixWins ==
    \A w \in Workers :
        /\ pc[w] \in {"got_mem", "got_consent", "done"}
              => /\ trace[w][2] = BranchOp(FirstPrefix(payload[w]))
                 /\ Cardinality({i \in 1..Len(trace[w]) :
                        trace[w][i] \in {"set_consent", "add_fact", "remove_fact", "get_mem"}})
                    = 1
        /\ (pc[w] # "idle" /\ HasPrefix(payload[w], PrefixConsent))
              => /\ \A i \in 1..Len(trace[w]) :
                        trace[w][i] \in {"append_turn", "set_consent", "error"}
                 /\ pc[w] = "done" =>
                        /\ trace[w] = <<"append_turn", "set_consent">>
                        /\ startswith(reply[w], ReplyConsentHead)

\* "consent: remember: yes" was answered as a consent command and stored nothing.
C10_Witness ==
    \E w \in Workers :
        /\ pc[w] = "done"
        /\ payload[w].message = MsgConsentYes
        /\ Consenting(payload[w].agent_key)
        /\ memory = <<>>
        /\ reply[w] = ReplyConsentHead \o ReplyOn

\* The consent rows of a speaker.
ConsentRows(table, k) == {r \in table : r.agent_key = k}

\* What follows the consent: prefix of the trimmed, lower-cased message.
ConsentRemainder(p) ==
    SubSeq(lower(strip(p.message)), Len(PrefixConsent) + 1, Len(lower(strip(p.message))))

\* C11: a speaker has at most one consent row; after a consent command the stored flag is
\* true exactly when the text after the prefix contains "yes" (an empty remainder gives
\* false) and the reply says ON exactly when it is true; the row then changes only with
\* the speaker's next consent command.
C11_ConsentLastWriteWins ==
    /\ [](\A k \in Keys : Cardinality(ConsentRows(consent, k)) <= 1)
    /\ [](\A w \in Workers :
            (pc[w] = "done" /\ HasPrefix(payload[w], PrefixConsent))
                => /\ Consenting(payload[w].agent_key)
                        <=> contains(ConsentRemainder(payload[w]), TokenYes)
                   /\ Truthy(get_consent(consent, payload[w].agent_key))
                        <=> Consenting(payload[w].agent_key)
                   /\ Cardinality(ConsentRows(consent, payload[w].agent_key)) = 1
                   /\ reply[w] = ReplyConsentHead \o
                        (IF Consenting(payload[w].agent_key) THEN ReplyOn ELSE ReplyOff))
    /\ [][\A k \in Keys :
            ConsentRows(consent', k) # ConsentRows(consent, k)
                => \E w \in Workers :
                       /\ pc[w] = "logged" /\ pc'[w] = "done"
                       /\ payload[w].agent_key = k
                       /\ HasPrefix(payload[w], PrefixConsent)]_vars

\* The speaker opted in, opted out, and sent an empty consent: command: the flag is off.
C11_Witness ==
    /\ pc["w1"] = "done"
    /\ Len(convos) = 3
    /\ convos[1].message = MsgConsentYes
    /\ convos[2].message = MsgConsentNo
    /\ payload["w1"].message = MsgConsentEmpty
    /\ consent = {[agent_key |-> "a1", allowed |-> 0]}
    /\ reply["w1"] = ReplyConsentHead \o ReplyOff

\* The operations of a request's trace that end it with a reply: a command's store write,
\* a backend call that returned, a backend call that raised, the rules.
TerminalOps(t) ==
    {i \in 1..Len(t) :
        \/ t[i] \in {"set_consent", "add_fact", "remove_fact", "raised", "rules"}
        \/ t[i] = "llm" /\ (i = Len(t) \/ t[i + 1] # "raised")}

\* How far chat has got.
Position(p) ==
    CASE p = "idle" -> 0
      [] p = "received" -> 1
      [] p = "logged" -> 2
      [] p = "got_mem" -> 3
      [] p = "got_consent" -> 4
      [] p \in {"done", "failed"} -> 5

\* C12: a request without a store error ends in exactly one of command handled, generation
\* succeeded, generation failed, fallback-only, with one reply that is not empty (also for
\* an empty generated text and an empty remember/forget argument); no reply exists before,
\* and every step of a request moves it forward, so it ends after a bounded number of steps.
C12_OneNonEmptyReply ==
    /\ [](\A w \in Workers :
            /\ pc[w] = "done"
                  => /\ reply[w] # <<>>
                     /\ Cardinality(TerminalOps(trace[w])) = 1
                     /\ TerminalOps(trace[w]) \subseteq {Len(trace[w]) - 1, Len(trace[w])}
            /\ pc[w] # "done" => (reply[w] = <<>> /\ TerminalOps(trace[w]) = {}))
    /\ [][\A w \in Workers :
            pc'[w] # pc[w]
                => \/ pc[w] \in {"done", "failed"} /\ pc'[w] = "idle"
                   \/ Position(pc[w]) < Position(pc'[w])]_vars

\* The backend returned an empty text: the reply is the bare marker.
C12_Witness ==
    \E w \in Workers :
        /\ pc[w] = "done"
        /\ trace[w][Len(trace[w])] = "llm"
        /\ reply[w] = ReplyLlmTag
        /\ [agent_key |-> "a1", fact |-> <<>>] \in {memory[i] : i \in 1..Len(memory)}

\* The backend calls of the handler's request.
BackendCalls(w) == {i \in 1..Len(trace[w]) : trace[w][i] = "llm"}

\* C13: a request calls the backend at most once, and only for a plain message with an API
\* key set; a call that raised ends the request at once with the fallback-marked reply;
\* without an API key there is no call and a plain message gets the rule-based reply.
C13_BackendAtMostOnce ==
    \A w \in Workers :
        /\ Cardinality(BackendCalls(w)) <= 1
        /\ BackendCalls(w) # {}
              => (apiKey /\ ~IsCommand(payload[w]) /\ pc[w] = "done" /\ messages[w] # <<>>)
        /\ (\E i \in 1..Len(trace[w]) : trace[w][i] = "raised")
              => /\ pc[w] = "done"
                 /\ SubSeq(trace[w], Len(trace[w]) - 1, Len(trace[w])) = <<"llm", "raised">>
                 /\ startswith(reply[w], ReplyFallbackHead)
        /\ ~apiKey
              => /\ BackendCalls(w) = {}
                 /\ messages[w] = <<>>
                 /\ AnsweredPlain(w)
                       => /\ trace[w][Len(trace[w])] = "rules"
                          /\ reply[w] = rule_based_reply(payload[w].agent_name,
                                                         strip(payload[w].message), mem[w])

\* One call that raised, answered with the marker and the error text.
C13_Witness ==
    \E w \in Workers :
        /\ BackendFailed(w)
        /\ Cardinality(BackendCalls(w)) = 1
        /\ reply[w] = ReplyFallbackHead \o LlmTimeout
        /\ received = 2

\* The store operations of a request that read and that write.
ReadOps == {"get_mem", "get_consent"}

WriteOps == {"set_consent", "add_fact", "remove_fact"}

\* C14: under any interleaving of handlers, memory never holds a pair twice (also after
\* two identical remember commands at the same time), a speaker has at most one consent
\* row and it holds the value of one of the received consent commands, every inserted turn
\* is in convos, and no request writes a store after reading one.
C14_ConcurrentStoresConsistent ==
    /\ \A i, j \in 1..Len(memory) : i # j => memory[i] # memory[j]
    /\ \A k \in Keys :
          /\ Cardinality(ConsentRows(consent, k)) <= 1
          /\ \A r \in ConsentRows(consent, k) :
                \E i \in 1..Len(convos) :
                    /\ convos[i].agent_key = k
                    /\ HasPrefix([message |-> convos[i].message], PrefixConsent)
                    /\ (r.allowed = 1)
                         <=> contains(ConsentRemainder([message |-> convos[i].message]), TokenYes)
    /\ Len(convos) = received - Cardinality({w \in Workers : pc[w] = "received"})
    /\ \A w \in Workers :
          Logged(w)
              => RowCount(convos, ConvoRow(payload[w]))
                 >= Cardinality({v \in Workers : Logged(v) /\ payload[v] = payload[w]})
    /\ \A w \in Workers :
          \A i, j \in 1..Len(trace[w]) :
              (trace[w][i] \in ReadOps /\ trace[w][j] \in WriteOps) => j < i

\* Two handlers have answered the same remember command at the same time, after one more
\* request: two convos rows for them, one memory row.
C14_Witness ==
    /\ pc["w1"] = "done"
    /\ pc["w2"] = "done"
    /\ payload["w1"] = payload["w2"]
    /\ HasPrefix(payload["w1"], PrefixRemember)
    /\ RowCount(memory, NamedRow(payload["w1"])) = 1
    /\ RowCount(convos, ConvoRow(payload["w1"])) = 2
    /\ Len(convos) = 3

\* The lower-cased, trimmed message the patterns are tested on.
Lowered(m) == strip(lower(m))

\* The text of the name up to its first space.
FirstToken(name) ==
    IF \E i \in 1..Len(name) : name[i] = " "
    THEN SubSeq(name, 1, (CHOOSE i \in 1..Len(name) :
                              name[i] = " " /\ \A j \in 1..(i - 1) : name[j] # " ") - 1)
    ELSE name

\* The nine patterns of the fallback generator in priority order.
PatternMatches(n, low, facts) ==
    CASE n = 1 -> low \in {WordHi, WordHello, WordHey, WordYo, WordSup}
      [] n = 2 -> contains(low, WordHowAreYou)
      [] n = 3 -> contains(low, WordWhoAreYou)
      [] n = 4 -> contains(low, WordHelp)
      [] n = 5 -> contains(low, PrefixRemember)
      [] n = 6 -> contains(low, PrefixForget)
      [] n = 7 -> \E word \in {WordBye, WordGoodnight, WordGoodNight} : contains(low, word)
      [] n = 8 -> facts # <<>>
      [] n = 9 -> TRUE

\* What the reply of each pattern looks like.
PatternReplyOk(n, name, facts, text) ==
    CASE n = 1 -> text = RuleGreetHead \o (IF name = <<>> THEN RuleThere ELSE FirstToken(name))
                         \o RuleGreetTail
      [] n = 2 -> text = RuleHowAreYou
      [] n = 3 -> text = RuleWhoAreYou
      [] n = 4 -> text = RuleHelp
      [] n = 5 -> text = RuleRemember
      [] n = 6 -> text = RuleForget
      [] n = 7 -> text = RuleBye
      [] n = 8 -> startswith(text, RuleNotedHead \o facts[1])
      [] n = 9 -> text = RuleTellMore

FirstPattern(low, facts) ==
    CHOOSE n \in 1..9 :
        PatternMatches(n, low, facts) /\ \A k \in 1..(n - 1) : ~PatternMatches(k, low, facts)

\* C15: the fallback reply is that of the first pattern, in the order greeting, "how are
\* you", "who are you", "help", "remember:", "forget:", farewell, known facts, generic, that
\* matches the lower-cased, trimmed message; "hello" is greeted with the first token of the
\* name, or "there" for an empty name; producing it changes no store.
C15_FirstPatternReplies ==
    /\ [](\A w \in Workers :
            (pc[w] = "done" /\ trace[w][Len(trace[w])] = "rules")
                => PatternReplyOk(FirstPattern(Lowered(payload[w].message), mem[w]),
                                  payload[w].agent_name, mem[w], reply[w]))
    /\ [][\A w \in Workers :
            (pc[w] = "got_consent" /\ pc'[w] = "done")
                => (memory' = memory /\ consent' = consent /\ convos' = convos)]_vars

\* "who are you? help" got the self-description, not the help text.
C15_Witness ==
    \E w \in Workers :
        /\ pc[w] = "done"
        /\ payload[w].message = MsgWhoHelp
        /\ reply[w] = RuleWhoAreYou
        /\ mem[w] # <<>>

\* One, two or three facts joined by ", ".
Listed(fs) ==
    IF Len(fs) = 1 THEN fs[1]
    ELSE IF Len(fs) = 2 THEN fs[1] \o SepMem \o fs[2]
    ELSE fs[1] \o SepMem \o fs[2] \o SepMem \o fs[3]

\* The message matches one of the seven special patterns of the rules.
SpecialPattern(m) == \E n \in 1..7 : PatternMatches(n, Lowered(m), <<>>)

\* C16: without an API key, a plain message that matches no special pattern gets, when the
\* speaker has facts, the first 3 (or fewer) facts of the list read, joined by ", " after
\* the fixed head, cut to 300 characters; with no facts it gets the generic reply.
C16_KnownFactsReply ==
    \A w \in Workers :
        (pc[w] = "done" /\ trace[w][Len(trace[w])] = "rules"
         /\ ~SpecialPattern(payload[w].message))
            => IF StoredFacts(payload[w].agent_key) = {}
               THEN reply[w] = RuleTellMore
               ELSE LET n == IF Len(mem[w]) < 3 THEN Len(mem[w]) ELSE 3
                        full == RuleNotedHead \o Listed(SubSeq(mem[w], 1, n))
                    IN  /\ mem[w] \in get_mem(memory, payload[w].agent_key)
                        /\ Len(reply[w]) <= 300
                        /\ startswith(full, reply[w])
                        /\ Len(full) <= 300 => reply[w] = full
                        /\ Len(full) > 300 => Len(reply[w]) = 300
                        /\ {f \in StoredFacts(payload[w].agent_key) : contains(reply[w], f)}
                              \subseteq {mem[w][i] : i \in 1..n}

\* Three long facts: the reply is cut at 300 characters inside the third fact.
C16_Witness ==
    \E w \in Workers :
        /\ pc[w] = "done"
        /\ payload[w].message = MsgPlain
        /\ Len(mem[w]) = 3
        /\ Len(reply[w]) = 300
        /\ Cardinality({f \in StoredFacts(payload[w].agent_key) : contains(reply[w], f)}) = 2

\* The text without its leading and trailing whitespace, found from its two ends.
Trimmed(s) ==
    IF \A i \in 1..Len(s) : s[i] \in Whitespace THEN <<>>
    ELSE LET a == CHOOSE i \in 1..Len(s) :
                      s[i] \notin Whitespace /\ \A j \in 1..(i - 1) : s[j] \in Whitespace
             b == CHOOSE i \in 1..Len(s) :
                      s[i] \notin Whitespace /\ \A j \in (i + 1)..Len(s) : s[j] \in Whitespace
         IN  [i \in 1..(b - a + 1) |-> s[a + i - 1]]

\* Everything after the first ":" of the trimmed message, trimmed, in the message's own
\* characters.
Argument(p) ==
    LET m == Trimmed(p.message)
        c == CHOOSE i \in 1..Len(m) : m[i] = ":" /\ \A j \in 1..(i - 1) : m[j] # ":"
    IN  Trimmed([i \in 1..(Len(m) - c) |-> m[c + i]])

\* C17: the fact a remember: or forget: command works on is the text after the first colon
\* of the trimmed message, trimmed, with its case and its later colons kept; an empty
\* argument is stored or removed like any other; the remember reply quotes exactly the
\* fact that is then in the speaker's facts.
C17_ArgumentAfterFirstColon ==
    \A w \in Workers :
        pc[w] = "done"
            => LET p == payload[w]
                   k == payload[w].agent_key
               IN  /\ HasPrefix(p, PrefixRemember)
                        => /\ reply[w] = ReplySaved \o Argument(p) \o ReplyQuote
                           /\ Argument(p) \in StoredFacts(k)
                           /\ trace[w] = <<"append_turn", "add_fact">>
                   /\ HasPrefix(p, PrefixForget)
                        => /\ reply[w] = ReplyForgot \o Argument(p) \o ReplyQuote
                           /\ Argument(p) \notin StoredFacts(k)
                           /\ trace[w] = <<"append_turn", "remove_fact">>
                   /\ p.message = MsgRememberBob => FactBob \in StoredFacts(k)
                   /\ p.message = MsgForgetBob => FactBob \notin StoredFacts(k)
                   /\ p.message = MsgRememberEmpty
                        => (<<>> \in StoredFacts(k) /\ reply[w] = ReplySaved \o ReplyQuote)
                   /\ p.message = MsgForgetEmpty
                        => (<<>> \notin StoredFacts(k) /\ reply[w] = ReplyForgot \o ReplyQuote)

\* The nested-colon fact was stored, then the empty fact was stored next to it.
C17_Witness ==
    /\ pc["w1"] = "done"
    /\ payload["w1"].message = MsgRememberEmpty
    /\ reply["w1"] = ReplySaved \o ReplyQuote
    /\ Len(memory) >= 2
    /\ memory[Len(memory) - 1].fact = FactBob
    /\ memory[Len(memory)].fact = <<>>

\* The fact texts a table holds for a speaker.
FactSet(table, k) == {table[i].fact : i \in {j \in 1..Len(table) : table[j].agent_key = k}}

\* The facts stored for some other speaker and not for the speaker of the handler's request.
ForeignFacts(w) ==
    UNION {StoredFacts(b) : b \in Keys \ {payload[w].agent_key}}
        \ StoredFacts(payload[w].agent_key)

\* The handler's reply or request contains the text.
Shown(w, f) ==
    \/ contains(reply[w], f)
    \/ messages[w] # <<>> /\ contains(RequestText(w), f)

\* A request leaves the facts and the consent row of every other speaker as they were.
OthersUntouched ==
    [][\A w \in Workers : \A k \in Keys :
            (pc[w] # "idle" /\ pc'[w] # pc[w] /\ k # payload[w].agent_key)
                => /\ FactSet(memory', k) = FactSet(memory, k)
                   /\ ConsentRows(consent', k) = ConsentRows(consent, k)]_vars

C19_OwnStoreOnly ==
    [][\A w \in Workers :
            (pc[w] # "idle" /\ pc'[w] # pc[w])
                => LET kind == FirstPrefix(payload[w])
                   IN  /\ kind = "consent" => memory' = memory
                       /\ kind \in {"remember", "forget"} => consent' = consent
                       /\ kind = "plain" => (memory' = memory /\ consent' = consent)
                       /\ pc[w] # "received" => convos' = convos]_vars

\* a1, whose eleven facts were stored before, turned consent off, then on, then sent a plain
\* message: all facts are still stored and the generation request names the first of them.
C19_Witness ==
    /\ pc["w1"] = "done"
    /\ Len(convos) = 3
    /\ convos[1].message = MsgConsentNo
    /\ convos[2].message = MsgConsentYes
    /\ convos[3].message = MsgPlain
    /\ \A i \in 1..3 : convos[i].agent_key = "a1"
    /\ memory = PreloadedMemory
    /\ messages["w1"] # <<>>
    /\ contains(RequestText("w1"), PreloadedMemory[1].fact)

\* The words by which a reply states that a fact was saved, or that something was removed.
WordSaved == <<"s","a","v","e","d">>

WordForgot == <<"f","o","r","g","o","t">>

WordScrubbed == <<"s","c","r","u","b","b","e","d">>

HasColon(p) == \E i \in 1..Len(p.message) : p.message[i] = ":"

\* C20: when the reply to a request says that a fact was saved, the speaker's facts hold the
\* text after the message's first colon at the end of the request; when it says that
\* something was forgotten or scrubbed, the request executed a remove. This includes a plain
\* message with "remember:" or "forget:" after its start, answered by the rules.
C20_AcksTruthful ==
    \A w \in Workers :
        pc[w] = "done"
            => /\ contains(reply[w], WordSaved)
                    => /\ HasColon(payload[w])
                       /\ Argument(payload[w]) \in StoredFacts(payload[w].agent_key)
               /\ (contains(reply[w], WordForgot) \/ contains(reply[w], WordScrubbed))
                    => \E i \in 1..Len(trace[w]) : trace[w][i] = "remove_fact"

====
